---- MODULE Spec2Model ----
(***************************************************************************)
(* Workerman (src/src/main.go): a dispatcher that watches a directory of   *)
(* worker executables, keeps one beanstalkd tube connection per worker,    *)
(* launches workers when their tube has ready jobs (subject to limits),    *)
(* aggregates run statistics in one collector goroutine and answers        *)
(* getLimits / getStatus / setLimits commands.                             *)
(***************************************************************************)
EXTENDS Integers, Sequences, FiniteSets, Bags, TLC

(***************************************************************************)
(* Bounds of the model.                                                    *)
(***************************************************************************)
\* Width of Go's uint / uint64 in the model (64 in the build; the wrap-around
\* arithmetic is the same at any width).
UintBits == 8
\* The dispatcher loop is followed for this many cycles.
MaxCycles == 6
\* Launches whose start event is applied or still pending.
MaxRuns == 2
\* Commands being processed plus responses not yet taken by the client.
MaxCommands == 1
\* Sync messages fed to the collector when it is checked on its own.
MaxEvents == 3
\* Largest limit and running count when canRunWorker is checked on its own.
MaxLimit == 2
\* Commands being processed at once when their concurrency is checked.
MaxInFlight == 2
\* Cycles followed when a worker file is removed and restored: long enough
\* for watcher() to run three times.
MaxReaddCycles == 11

(***************************************************************************)
(* Program constants.                                                      *)
(***************************************************************************)
DEFAULT_QUEUE_LIMIT == 5
WORKERS_MAX == 100
WORKERS_MIN == 5
\* main(): "if stats.TotalCycles%5 == 0 { watcher() }"
WatchEvery == 5

UintModulus == 2 ^ UintBits
\* Go's int has the width of uint; strconv.Atoi fails outside this range.
IntMax == (UintModulus \div 2) - 1
IntMin == 0 - (UintModulus \div 2)

\* File names the environment may create in the workers directory.
WorkerNames == {"alpha", "*"}

(***************************************************************************)
(* Go maps: a function whose DOMAIN is the key set.                        *)
(***************************************************************************)
EmptyMap == [k \in {} |-> 0]
Has(m, k) == k \in DOMAIN m
\* m[k] read: the zero value when the key is absent
Get(m, k) == IF k \in DOMAIN m THEN m[k] ELSE 0
\* m[k] = v: creates the key when absent
Put(m, k, v) == [x \in (DOMAIN m) \cup {k} |-> IF x = k THEN v ELSE m[x]]
\* delete(m, k)
Delete(m, k) == [x \in (DOMAIN m) \ {k} |-> m[x]]

\* unsigned arithmetic of the given width
UAdd(a, b) == (a + b) % UintModulus
USub(a, b) == (a - b) % UintModulus
\* uint(i) of a Go int
ToUint(i) == i % UintModulus

RECURSIVE SumOver(_, _)
SumOver(m, keys) ==
    IF keys = {} THEN 0
    ELSE LET k == CHOOSE x \in keys : TRUE
         IN  m[k] + SumOver(m, keys \ {k})
\* sum of the values of a map, as mathematical integers
MapSum(m) == SumOver(m, DOMAIN m)

(***************************************************************************)
(* Text: a string is a sequence of one-character strings.                  *)
(***************************************************************************)
DigitChars == <<"0", "1", "2", "3", "4", "5", "6", "7", "8", "9">>
IsDigit(c) == \E i \in 1..10 : DigitChars[i] = c
DigitVal(c) == (CHOOSE i \in 1..10 : DigitChars[i] = c) - 1

RECURSIVE DigitsValue(_, _)
\* value of a digit string, accumulated left to right
DigitsValue(s, acc) ==
    IF s = <<>> THEN acc
    ELSE DigitsValue(Tail(s), IF acc > UintModulus THEN acc ELSE acc * 10 + DigitVal(Head(s)))

\* strconv.Atoi: optional sign, at least one digit, only digits, in int range
Atoi(s) ==
    LET signed == s # <<>> /\ Head(s) \in {"+", "-"}
        body   == IF signed THEN Tail(s) ELSE s
        wellFormed == body # <<>> /\ \A i \in 1..Len(body) : IsDigit(body[i])
        mag    == IF wellFormed THEN DigitsValue(body, 0) ELSE 0
        val    == IF signed /\ Head(s) = "-" THEN 0 - mag ELSE mag
    IN  IF wellFormed /\ val >= IntMin /\ val <= IntMax
        THEN [ok |-> TRUE, val |-> val]
        ELSE [ok |-> FALSE, val |-> 0]

RECURSIVE FormatUint(_)
\* decimal text of an unsigned number, as encoding/json writes it
FormatUint(n) ==
    IF n < 10 THEN <<DigitChars[n + 1]>>
    ELSE Append(FormatUint(n \div 10), DigitChars[(n % 10) + 1])

\* encoding/json reading a number into a uint field
ParseUint(s) ==
    LET wellFormed == s # <<>> /\ \A i \in 1..Len(s) : IsDigit(s[i])
        val == IF wellFormed THEN DigitsValue(s, 0) ELSE 0
    IN  IF wellFormed /\ val < UintModulus
        THEN [ok |-> TRUE, val |-> val]
        ELSE [ok |-> FALSE, val |-> 0]

(***************************************************************************)
(* State.                                                                  *)
(***************************************************************************)
VARIABLES
    files,          \* worker files present in the workers directory
    connections,    \* key set of the connections map
    limits,         \* Limits: Total, Min, Queues
    stats,          \* Stats: TotalRuns, TotalCycles, Runs, Errors, Running, TotalRunning
    cfgFile,        \* contents of the config file, or NoFile
    mainPc,         \* where the main loop is: "watch", "command", "queues"; "fatal": the process has ended
    runners,        \* bag of workerRunner goroutines: [worker, at, hasError]
    commands,       \* bag of processCommand goroutines not yet run
    responseTube    \* payloads put on the response tube

vars == <<files, connections, limits, stats, cfgFile, mainPc, runners,
          commands, responseTube>>

\* ioutil.ReadFile fails: there is no config file
NoFile == [present |-> FALSE]

(***************************************************************************)
(* Limits and Stats as text (Limits.Json, Limits.PrettyJson, json.Marshal) *)
(***************************************************************************)
\* Limits.Json / Limits.PrettyJson: the three fields, numbers in decimal
LimitsJson(lim) ==
    [Total  |-> FormatUint(lim.Total),
     Min    |-> FormatUint(lim.Min),
     Queues |-> [k \in DOMAIN lim.Queues |-> FormatUint(lim.Queues[k])]]

\* json.Unmarshal(file, &tempLimits): ok is false when a number does not parse
ParseLimits(text) ==
    LET t == ParseUint(text.Total)
        m == ParseUint(text.Min)
        q == [k \in DOMAIN text.Queues |-> ParseUint(text.Queues[k])]
    IN  [ok  |-> t.ok /\ m.ok /\ \A k \in DOMAIN q : q[k].ok,
         val |-> [Total  |-> t.val,
                  Min    |-> m.val,
                  Queues |-> [k \in DOMAIN q |-> q[k].val]]]

\* getLimits()
GetLimits(lim) == LimitsJson(lim)

\* getStatus(): json.Marshal(stats); stats.Limits points at limits
GetStatus(st, lim) ==
    [TotalRuns       |-> FormatUint(st.TotalRuns),
     TotalCycles     |-> FormatUint(st.TotalCycles),
     TotalRecoveries |-> FormatUint(0),
     LastError       |-> <<>>,
     Runs            |-> [k \in DOMAIN st.Runs |-> FormatUint(st.Runs[k])],
     Errors          |-> [k \in DOMAIN st.Errors |-> FormatUint(st.Errors[k])],
     Running         |-> [k \in DOMAIN st.Running |-> FormatUint(st.Running[k])],
     TotalRunning    |-> FormatUint(st.TotalRunning),
     Limits          |-> LimitsJson(lim)]

\* writeConfig(): the file's new contents
WriteConfig(lim) == [present |-> TRUE, text |-> LimitsJson(lim)]

\* readConfig(): the limits after it, given the limits before it
ReadConfig(file, lim) ==
    IF ~file.present THEN lim
    ELSE LET parsed == ParseLimits(file.text)
         IN  IF parsed.ok THEN parsed.val ELSE lim

\* main(): limits before readConfig()
DefaultLimits == [Total |-> WORKERS_MAX, Min |-> WORKERS_MIN, Queues |-> EmptyMap]

\* main(): stats as made at startup
EmptyStats ==
    [TotalRuns |-> 0, TotalCycles |-> 0, Runs |-> EmptyMap, Errors |-> EmptyMap,
     Running |-> EmptyMap, TotalRunning |-> 0]

(***************************************************************************)
(* watcher()                                                               *)
(***************************************************************************)
\* "if _, ok := m[tube]; !ok { m[tube] = v }" for every tube of tubes
SeedMissing(m, tubes, v) ==
    [k \in (DOMAIN m) \cup tubes |-> IF k \in DOMAIN m THEN m[k] ELSE v]

\* a slip: the per-queue limit is set without the "!ok" test
SeedQueuesReset(queues, tubes) ==
    [k \in (DOMAIN queues) \cup tubes |->
        IF k \in tubes THEN DEFAULT_QUEUE_LIMIT ELSE queues[k]]

\* "if _, ok := limits.Queues[tube]; !ok { limits.Queues[tube] = DEFAULT_QUEUE_LIMIT }"
SeedQueues(queues, tubes) == SeedMissing(queues, tubes, DEFAULT_QUEUE_LIMIT)

\* a slip: every worker file is subscribed, connected or not
ToSubscribeAll(workerFiles, conns) == workerFiles

\* first loop: the worker files with no connection yet
ToSubscribe(workerFiles, conns) == workerFiles \ conns

\* second loop: the connections whose worker file is gone
ToUnsubscribe(workerFiles, conns) == conns \ workerFiles

\* a slip: the running count of an unsubscribed tube is kept
DropRunningNone(running, tubes) == running

\* delete(stats.Running, tube) for every unsubscribed tube
DropRunning(running, tubes) == [k \in (DOMAIN running) \ tubes |-> running[k]]

\* watcher(): the state after it, with the tubes it subscribed and unsubscribed
Watcher(workerFiles, conns, st, lim) ==
    LET sub    == ToSubscribe(workerFiles, conns)
        conns1 == conns \cup sub
        unsub  == ToUnsubscribe(workerFiles, conns1)
    IN  [connections  |-> conns1 \ unsub,
         stats        |-> [st EXCEPT !.Runs = SeedMissing(st.Runs, sub, 0),
                                     !.Running = DropRunning(
                                         SeedMissing(st.Running, sub, 0), unsub)],
         limits       |-> [lim EXCEPT !.Queues = SeedQueues(lim.Queues, sub)],
         subscribed   |-> sub,
         unsubscribed |-> unsub]

(***************************************************************************)
(* canRunWorker()                                                          *)
(***************************************************************************)
\* a slip: the total limit is tested before the minimum
CanRunWorkerTotalFirst(worker, st, lim) ==
    IF st.TotalRunning < lim.Total
    THEN IF ~Has(lim.Queues, worker) THEN TRUE
         ELSE lim.Queues[worker] > Get(st.Running, worker)
    ELSE Get(st.Running, worker) < lim.Min

\* a slip: ">=" for ">" in the per-queue test
CanRunWorkerOffByOne(worker, st, lim) ==
    IF Get(st.Running, worker) < lim.Min THEN TRUE
    ELSE IF st.TotalRunning < lim.Total
         THEN IF ~Has(lim.Queues, worker) THEN TRUE
              ELSE lim.Queues[worker] >= Get(st.Running, worker)
         ELSE FALSE

CanRunWorker(worker, st, lim) ==
    IF Get(st.Running, worker) < lim.Min THEN TRUE
    ELSE IF st.TotalRunning < lim.Total
         THEN IF ~Has(lim.Queues, worker) THEN TRUE
              ELSE lim.Queues[worker] > Get(st.Running, worker)
         ELSE FALSE

(***************************************************************************)
(* setLimits()                                                             *)
(***************************************************************************)
\* a slip: a key that is not subscribed is given a per-queue limit
SetLimitAddsKey(lim, key, value) ==
    LET n == Atoi(value)
    IN  IF key = "*"
        THEN IF n.ok THEN [lim EXCEPT !.Total = ToUint(n.val)] ELSE lim
        ELSE IF key = "-"
        THEN IF n.ok THEN [lim EXCEPT !.Min = ToUint(n.val)] ELSE lim
        ELSE IF n.ok THEN [lim EXCEPT !.Queues = Put(lim.Queues, key, ToUint(n.val))]
        ELSE lim

\* one pass of the loop body of setLimits
SetLimit(lim, key, value) ==
    LET n == Atoi(value)
    IN  IF Has(lim.Queues, key)
        THEN IF n.ok THEN [lim EXCEPT !.Queues = Put(lim.Queues, key, ToUint(n.val))]
             ELSE lim
        ELSE IF key = "*"
        THEN IF n.ok THEN [lim EXCEPT !.Total = ToUint(n.val)] ELSE lim
        ELSE IF key = "-"
        THEN IF n.ok THEN [lim EXCEPT !.Min = ToUint(n.val)] ELSE lim
        ELSE lim

RECURSIVE SetLimitsIn(_, _, _)
\* the loop of setLimits, visiting the keys in the given order
SetLimitsIn(lim, options, order) ==
    IF order = <<>> THEN lim
    ELSE SetLimitsIn(SetLimit(lim, Head(order), options[Head(order)]), options, Tail(order))

\* the orders in which "range options" may visit the keys
Orders(keys) ==
    {o \in [1..Cardinality(keys) -> keys] :
        \A i, j \in 1..Cardinality(keys) : i # j => o[i] # o[j]}

(***************************************************************************)
(* statisticsCollector()                                                   *)
(***************************************************************************)
\* a slip: the end of a run does not lower TotalRunning
ApplySyncNoTotal(st, m) ==
    IF Has(st.Runs, m.Worker)
    THEN IF m.Count = 1
         THEN [st EXCEPT
                 !.TotalRuns = UAdd(st.TotalRuns, 1),
                 !.Runs = Put(st.Runs, m.Worker, UAdd(Get(st.Runs, m.Worker), 1)),
                 !.Running = Put(st.Running, m.Worker, UAdd(Get(st.Running, m.Worker), 1)),
                 !.TotalRunning = UAdd(st.TotalRunning, 1)]
         ELSE [st EXCEPT
                 !.Running = Put(st.Running, m.Worker, USub(Get(st.Running, m.Worker), 1))]
    ELSE st

\* a slip: the error of a run is counted when its flag is read and again
\* when the end of the run is counted
ApplySyncErrorsTwice(st, m) ==
    IF Has(st.Runs, m.Worker)
    THEN LET st1 == IF m.Error
                    THEN [st EXCEPT !.Errors =
                              Put(st.Errors, m.Worker, UAdd(Get(st.Errors, m.Worker), 1))]
                    ELSE st
         IN  IF m.Count = 1
             THEN [st1 EXCEPT
                     !.TotalRuns = UAdd(st1.TotalRuns, 1),
                     !.Runs = Put(st1.Runs, m.Worker, UAdd(Get(st1.Runs, m.Worker), 1)),
                     !.Running = Put(st1.Running, m.Worker,
                                     UAdd(Get(st1.Running, m.Worker), 1)),
                     !.TotalRunning = UAdd(st1.TotalRunning, 1)]
             ELSE [st1 EXCEPT
                     !.Errors = IF m.Error
                                THEN Put(st1.Errors, m.Worker,
                                         UAdd(Get(st1.Errors, m.Worker), 1))
                                ELSE st1.Errors,
                     !.Running = Put(st1.Running, m.Worker,
                                     USub(Get(st1.Running, m.Worker), 1)),
                     !.TotalRunning = USub(st1.TotalRunning, 1)]
    ELSE st

\* the loop body, for one received Sync m
ApplySync(st, m) ==
    IF Has(st.Runs, m.Worker)
    THEN LET st1 == IF m.Error
                    THEN [st EXCEPT !.Errors =
                              Put(st.Errors, m.Worker, UAdd(Get(st.Errors, m.Worker), 1))]
                    ELSE st
         IN  IF m.Count = 1
             THEN [st1 EXCEPT
                     !.TotalRuns = UAdd(st1.TotalRuns, 1),
                     !.Runs = Put(st1.Runs, m.Worker, UAdd(Get(st1.Runs, m.Worker), 1)),
                     !.Running = Put(st1.Running, m.Worker,
                                     UAdd(Get(st1.Running, m.Worker), 1)),
                     !.TotalRunning = UAdd(st1.TotalRunning, 1)]
             ELSE [st1 EXCEPT
                     !.Running = Put(st1.Running, m.Worker,
                                     USub(Get(st1.Running, m.Worker), 1)),
                     !.TotalRunning = USub(st1.TotalRunning, 1)]
    ELSE st

(***************************************************************************)
(* Initial state: main() up to the start of its loop.  The config file is  *)
(* missing, or is one an earlier run wrote.                                *)
(***************************************************************************)
StartupConfigs ==
    {NoFile, WriteConfig([Total |-> 1, Min |-> 0, Queues |-> [k \in {"alpha"} |-> 1]])}

Init ==
    /\ files \in SUBSET WorkerNames
    /\ connections = {}
    /\ cfgFile \in StartupConfigs
    /\ limits = ReadConfig(cfgFile, DefaultLimits)
    /\ stats = EmptyStats
    /\ mainPc = "watch"
    /\ runners = EmptyBag
    /\ commands = EmptyBag
    /\ responseTube = <<>>

(***************************************************************************)
(* The workers directory (the environment).                                *)
(***************************************************************************)
FileAdd(w) ==
    /\ w \notin files
    /\ files' = files \cup {w}
    /\ UNCHANGED <<connections, limits, stats, cfgFile, mainPc, runners,
                   commands, responseTube>>

FileRemove(w) ==
    /\ w \in files
    /\ files' = files \ {w}
    /\ UNCHANGED <<connections, limits, stats, cfgFile, mainPc, runners,
                   commands, responseTube>>

(***************************************************************************)
(* main(): one cycle of the loop, in three steps.                          *)
(***************************************************************************)
\* "if stats.TotalCycles%5 == 0 { watcher() }"
WatchStepWithin(cycles) ==
    /\ mainPc = "watch"
    /\ stats.TotalCycles < cycles
    /\ IF stats.TotalCycles % WatchEvery = 0
       THEN LET r == Watcher(files, connections, stats, limits)
            IN  /\ connections' = r.connections
                /\ stats' = r.stats
                /\ limits' = r.limits
       ELSE UNCHANGED <<connections, stats, limits>>
    /\ mainPc' = "command"
    /\ UNCHANGED <<files, cfgFile, runners, commands, responseTube>>

WatchStep == WatchStepWithin(MaxCycles)

\* commandTube.Reserve(0) times out, or the body does not decode
CommandNone ==
    /\ mainPc = "command"
    /\ mainPc' = "queues"
    /\ UNCHANGED <<files, connections, limits, stats, cfgFile, runners,
                   commands, responseTube>>

\* a command is reserved and decoded: "go processCommand(cmd)"
CommandSpawnWithin(cmd, room) ==
    /\ mainPc = "command"
    /\ BagCardinality(commands) + Len(responseTube) < room
    /\ commands' = commands (+) SetToBag({cmd})
    /\ mainPc' = "queues"
    /\ UNCHANGED <<files, connections, limits, stats, cfgFile, runners,
                   responseTube>>

CommandSpawn(cmd) == CommandSpawnWithin(cmd, MaxCommands)

\* runners waiting to send their start event
PendingStarts ==
    BagCardinality([r \in {x \in BagToSet(runners) : x.at = "send_start"}
                      |-> runners[r]])

NewRunner(w) == [worker |-> w, at |-> "send_start", hasError |-> FALSE]

\* the workers the loop over connections launches, given the tubes with ready jobs
Launched(ready, conns, st, lim) ==
    {w \in conns : CanRunWorker(w, st, lim) /\ w \in ready}

\* a slip: "workerRunner(worker)" without "go": the loop goes on only when
\* the workers it started have returned
QueuesStepWaits(ready) ==
    /\ mainPc = "queues"
    /\ runners = EmptyBag
    /\ LET launched == Launched(ready, connections, stats, limits)
       IN  /\ stats.TotalRuns + PendingStarts + Cardinality(launched) <= MaxRuns
           /\ runners' = runners (+) SetToBag({NewRunner(w) : w \in launched})
    /\ stats' = [stats EXCEPT !.TotalCycles = UAdd(stats.TotalCycles, 1)]
    /\ mainPc' = "watch"
    /\ UNCHANGED <<files, connections, limits, cfgFile, commands, responseTube>>

\* "for worker, conn := range connections { ... }", then "stats.TotalCycles++"
QueuesStep(ready) ==
    /\ mainPc = "queues"
    /\ LET launched == Launched(ready, connections, stats, limits)
       IN  /\ stats.TotalRuns + PendingStarts + Cardinality(launched) <= MaxRuns
           /\ runners' = runners (+) SetToBag({NewRunner(w) : w \in launched})
    /\ stats' = [stats EXCEPT !.TotalCycles = UAdd(stats.TotalCycles, 1)]
    /\ mainPc' = "watch"
    /\ UNCHANGED <<files, connections, limits, cfgFile, commands, responseTube>>

(***************************************************************************)
(* workerRunner() and statisticsCollector(): the unbuffered statsChannel   *)
(* makes each send one step with the collector's receive.                  *)
(***************************************************************************)
MoveRunner(r, next) == (runners (-) SetToBag({r})) (+) SetToBag({next})

\* "statsChannel <- Sync{worker, 1, hasError}" received and applied
CollectStart(r) ==
    /\ BagIn(r, runners)
    /\ r.at = "send_start"
    /\ stats' = ApplySync(stats, [Worker |-> r.worker, Count |-> 1, Error |-> r.hasError])
    /\ runners' = MoveRunner(r, [r EXCEPT !.at = "exec"])
    /\ UNCHANGED <<files, connections, limits, cfgFile, mainPc, commands, responseTube>>

\* cmd.Run() cannot start the worker: "no such file"
RunnerNoFile(r) ==
    /\ BagIn(r, runners)
    /\ r.at = "exec"
    /\ r.worker \notin files
    /\ connections' = connections \ {r.worker}
    /\ runners' = MoveRunner(r, [r EXCEPT !.at = "send_end"])
    /\ UNCHANGED <<files, limits, stats, cfgFile, mainPc, commands, responseTube>>

\* the same "delete(connections, worker)", running while the main goroutine is
\* about to read or write the connections map (the range of its loop, or
\* watcher()): the unsynchronised map access may be caught by the Go runtime,
\* which then ends the process with all its goroutines
RunnerFatal(r) ==
    /\ BagIn(r, runners)
    /\ r.at = "exec"
    /\ r.worker \notin files
    /\ \/ mainPc = "queues"
       \/ mainPc = "watch" /\ stats.TotalCycles % WatchEvery = 0
    /\ mainPc' = "fatal"
    /\ runners' = EmptyBag
    /\ commands' = EmptyBag
    /\ UNCHANGED <<files, connections, limits, stats, cfgFile, responseTube>>

\* cmd.Run() starts the worker process
RunnerStart(r) ==
    /\ BagIn(r, runners)
    /\ r.at = "exec"
    /\ r.worker \in files
    /\ runners' = MoveRunner(r, [r EXCEPT !.at = "running"])
    /\ UNCHANGED <<files, connections, limits, stats, cfgFile, mainPc, commands,
                   responseTube>>

\* the worker process exits; failed: a non-zero exit code
RunnerExit(r, failed) ==
    /\ BagIn(r, runners)
    /\ r.at = "running"
    /\ runners' = MoveRunner(r, [r EXCEPT !.at = "send_end", !.hasError = failed])
    /\ UNCHANGED <<files, connections, limits, stats, cfgFile, mainPc, commands,
                   responseTube>>

\* "statsChannel <- Sync{worker, -1, hasError}" received and applied
CollectEnd(r) ==
    /\ BagIn(r, runners)
    /\ r.at = "send_end"
    /\ stats' = ApplySync(stats, [Worker |-> r.worker, Count |-> -1, Error |-> r.hasError])
    /\ runners' = runners (-) SetToBag({r})
    /\ UNCHANGED <<files, connections, limits, cfgFile, mainPc, commands, responseTube>>

(***************************************************************************)
(* processCommand()                                                        *)
(***************************************************************************)
KnownCommands == {"getLimits", "getStatus", "setLimits"}

\* a slip: the default case does not return and the config is written
ProcessUnknownWrites(cmd) ==
    /\ BagIn(cmd, commands)
    /\ cmd.Command \notin KnownCommands
    /\ commands' = commands (-) SetToBag({cmd})
    /\ cfgFile' = WriteConfig(limits)
    /\ UNCHANGED <<files, connections, limits, stats, mainPc, runners, responseTube>>

\* the default case: log and return
ProcessUnknown(cmd) ==
    /\ BagIn(cmd, commands)
    /\ cmd.Command \notin KnownCommands
    /\ commands' = commands (-) SetToBag({cmd})
    /\ UNCHANGED <<files, connections, limits, stats, cfgFile, mainPc, runners,
                   responseTube>>

ProcessGetLimits(cmd) ==
    /\ BagIn(cmd, commands)
    /\ cmd.Command = "getLimits"
    /\ commands' = commands (-) SetToBag({cmd})
    /\ responseTube' = Append(responseTube, GetLimits(limits))
    /\ UNCHANGED <<files, connections, limits, stats, cfgFile, mainPc, runners>>

ProcessGetStatus(cmd) ==
    /\ BagIn(cmd, commands)
    /\ cmd.Command = "getStatus"
    /\ commands' = commands (-) SetToBag({cmd})
    /\ responseTube' = Append(responseTube, GetStatus(stats, limits))
    /\ UNCHANGED <<files, connections, limits, stats, cfgFile, mainPc, runners>>

\* setLimits(cmd.Options), writeConfig(), then the response
ProcessSetLimits(cmd) ==
    /\ BagIn(cmd, commands)
    /\ cmd.Command = "setLimits"
    /\ commands' = commands (-) SetToBag({cmd})
    /\ \E order \in Orders(DOMAIN cmd.Options) :
          limits' = SetLimitsIn(limits, cmd.Options, order)
    /\ cfgFile' = WriteConfig(limits')
    /\ responseTube' = Append(responseTube, GetStatus(stats, limits'))
    /\ UNCHANGED <<files, connections, stats, mainPc, runners>>

\* the client that sent the command takes its response off the response tube
ClientTake ==
    /\ responseTube # <<>>
    /\ responseTube' = Tail(responseTube)
    /\ UNCHANGED <<files, connections, limits, stats, cfgFile, mainPc, runners,
                   commands>>

(***************************************************************************)
(* The dispatcher with its launches; the command tube stays empty.         *)
(***************************************************************************)
Next ==
    \/ \E w \in WorkerNames : FileAdd(w)
    \/ \E w \in WorkerNames : FileRemove(w)
    \/ WatchStep
    \/ CommandNone
    \/ \E ready \in SUBSET WorkerNames : QueuesStep(ready)
    \/ \E r \in BagToSet(runners) : CollectStart(r)
    \/ \E r \in BagToSet(runners) : RunnerNoFile(r)
    \/ \E r \in BagToSet(runners) : RunnerFatal(r)
    \/ \E r \in BagToSet(runners) : RunnerStart(r)
    \/ \E r \in BagToSet(runners), failed \in BOOLEAN : RunnerExit(r, failed)
    \/ \E r \in BagToSet(runners) : CollectEnd(r)

Spec == Init /\ [][Next]_vars

(***************************************************************************)
(* The dispatcher with its command plane; no tube has ready jobs.          *)
(***************************************************************************)
Command(name, options) == [Command |-> name, Options |-> options]

\* {"*": a, "-": b, w: c}
ThreeLimits(a, b, w, c) ==
    [k \in {"*", "-", w} |-> IF k = "*" THEN a ELSE IF k = "-" THEN b ELSE c]

ControlCommands ==
    { Command("getLimits", EmptyMap),
      Command("getStatus", EmptyMap),
      Command("frobnicate", EmptyMap),
      Command("setLimits", ThreeLimits(<<"1", "0">>, <<"2">>, "alpha", <<"3">>)) }

ControlNext ==
    \/ \E w \in WorkerNames : FileAdd(w)
    \/ \E w \in WorkerNames : FileRemove(w)
    \/ WatchStep
    \/ CommandNone
    \/ \E cmd \in ControlCommands : CommandSpawn(cmd)
    \/ QueuesStep({})
    \/ \E cmd \in BagToSet(commands) : ProcessUnknown(cmd)
    \/ \E cmd \in BagToSet(commands) : ProcessGetLimits(cmd)
    \/ \E cmd \in BagToSet(commands) : ProcessGetStatus(cmd)
    \/ \E cmd \in BagToSet(commands) : ProcessSetLimits(cmd)
    \/ ClientTake

SpecControl == Init /\ [][ControlNext]_vars

(***************************************************************************)
(* The command plane with commands arriving in successive cycles, each     *)
(* handed to a goroutine of its own.                                       *)
(***************************************************************************)
CommandsNext ==
    \/ WatchStep
    \/ CommandNone
    \/ \E cmd \in ControlCommands : CommandSpawnWithin(cmd, MaxInFlight)
    \/ QueuesStep({})
    \/ \E cmd \in BagToSet(commands) : ProcessUnknown(cmd)
    \/ \E cmd \in BagToSet(commands) : ProcessGetLimits(cmd)
    \/ \E cmd \in BagToSet(commands) : ProcessGetStatus(cmd)
    \/ \E cmd \in BagToSet(commands) : ProcessSetLimits(cmd)
    \/ ClientTake

SpecCommands == Init /\ [][CommandsNext]_vars

(***************************************************************************)
(* Progress of the dispatcher.  Worker files only appear; every tube holds *)
(* one job, ready until a launch for it has been started; a worker process *)
(* may run for ever and a command handed to processCommand stays           *)
(* unanswered.  The scheduler is fair to the main goroutine and to the     *)
(* collector with the goroutines blocked on statsChannel.                  *)
(***************************************************************************)
\* tubes whose "current-jobs-ready" is positive
ReadyTubes ==
    {w \in WorkerNames :
        Get(stats.Runs, w) = 0 /\ ~BagIn(NewRunner(w), runners)}

LiveCommands == {Command("getStatus", EmptyMap)}

MainStep ==
    \/ WatchStep
    \/ CommandNone
    \/ \E cmd \in LiveCommands : CommandSpawn(cmd)
    \/ QueuesStep(ReadyTubes)

LiveNext ==
    \/ \E w \in WorkerNames : FileAdd(w)
    \/ MainStep
    \/ \E r \in BagToSet(runners) : CollectStart(r)
    \/ \E r \in BagToSet(runners) : RunnerStart(r)
    \/ \E r \in BagToSet(runners), failed \in BOOLEAN : RunnerExit(r, failed)
    \/ \E r \in BagToSet(runners) : CollectEnd(r)

SpecLive ==
    /\ Init
    /\ [][LiveNext]_vars
    /\ WF_vars(MainStep)
    /\ WF_vars(\E r \in BagToSet(runners) : CollectStart(r))
    /\ WF_vars(\E r \in BagToSet(runners) : CollectEnd(r))

(***************************************************************************)
(* setLimits commands with pairs of every kind: an unknown key, a value    *)
(* that is no integer, a negative value, next to pairs that apply.         *)
(***************************************************************************)
LimitCommands ==
    { Command("setLimits",
              [k \in {"ghost", "alpha", "*"} |->
                  IF k = "ghost" THEN <<"7">> ELSE IF k = "alpha" THEN <<"x">> ELSE <<"4">>]),
      Command("setLimits",
              [k \in {"alpha", "-"} |-> IF k = "alpha" THEN <<"-", "1">> ELSE <<"1">>]) }

LimitsNext ==
    \/ \E w \in WorkerNames : FileAdd(w)
    \/ \E w \in WorkerNames : FileRemove(w)
    \/ WatchStep
    \/ CommandNone
    \/ \E cmd \in LimitCommands : CommandSpawn(cmd)
    \/ QueuesStep({})
    \/ \E cmd \in BagToSet(commands) : ProcessSetLimits(cmd)
    \/ ClientTake

SpecLimits == Init /\ [][LimitsNext]_vars

(***************************************************************************)
(* The launch plane over more cycles, with the file of one worker removed  *)
(* and restored.                                                           *)
(***************************************************************************)
ReaddNext ==
    \/ FileAdd("alpha")
    \/ FileRemove("alpha")
    \/ WatchStepWithin(MaxReaddCycles)
    \/ CommandNone
    \/ \E ready \in {{}, {"alpha"}} : QueuesStep(ready)
    \/ \E r \in BagToSet(runners) : CollectStart(r)
    \/ \E r \in BagToSet(runners) : RunnerNoFile(r)
    \/ \E r \in BagToSet(runners) : RunnerFatal(r)
    \/ \E r \in BagToSet(runners) : RunnerStart(r)
    \/ \E r \in BagToSet(runners), failed \in BOOLEAN : RunnerExit(r, failed)
    \/ \E r \in BagToSet(runners) : CollectEnd(r)

SpecReadd == Init /\ [][ReaddNext]_vars

(***************************************************************************)
(* statisticsCollector() on its own: senders blocked on statsChannel with  *)
(* arbitrary Sync messages, for known and unknown workers.                 *)
(***************************************************************************)
AggSenders ==
    [worker : WorkerNames \cup {"ghost"}, at : {"send_start", "send_end"},
     hasError : BOOLEAN]

\* the bag of the elements of a sequence
BagOfSeq(seq) ==
    [r \in {seq[i] : i \in DOMAIN seq} |-> Cardinality({i \in DOMAIN seq : seq[i] = r})]

AggInit ==
    /\ \E known \in SUBSET WorkerNames : \E gone \in SUBSET known :
          LET first  == Watcher(known, {}, EmptyStats, DefaultLimits)
              second == Watcher(known \ gone, first.connections, first.stats,
                                first.limits)
          IN  /\ files = known \ gone
              /\ connections = second.connections
              /\ stats = second.stats
              /\ limits = second.limits
    /\ \E n \in 0..MaxEvents : \E seq \in [1..n -> AggSenders] :
          runners = BagOfSeq(seq)
    /\ cfgFile = NoFile
    /\ mainPc = "watch"
    /\ commands = EmptyBag
    /\ responseTube = <<>>

AggNext ==
    \/ \E r \in BagToSet(runners) : CollectStart(r)
    \/ \E r \in BagToSet(runners) : CollectEnd(r)

SpecAgg == AggInit /\ [][AggNext]_vars

(***************************************************************************)
(* canRunWorker() on its own: the loop over connections of main(), from    *)
(* any limits and running counts.                                          *)
(***************************************************************************)
PartialMaps(keys, values) == UNION {[d -> values] : d \in SUBSET keys}

AdmitInit ==
    /\ files = WorkerNames
    /\ connections = WorkerNames
    /\ \E t \in 0..MaxLimit, m \in 0..MaxLimit :
       \E q \in PartialMaps(WorkerNames, 0..MaxLimit) :
          limits = [Total |-> t, Min |-> m, Queues |-> q]
    /\ \E tr \in 0..MaxLimit : \E r \in PartialMaps(WorkerNames, 0..MaxLimit) :
          stats = [EmptyStats EXCEPT !.Runs = [w \in WorkerNames |-> 0],
                                     !.Running = r, !.TotalRunning = tr]
    /\ cfgFile = NoFile
    /\ mainPc = "queues"
    /\ runners = EmptyBag
    /\ commands = EmptyBag
    /\ responseTube = <<>>

AdmitNext == \E ready \in SUBSET WorkerNames : QueuesStep(ready)

SpecAdmit == AdmitInit /\ [][AdmitNext]_vars

(***************************************************************************)
(* Properties.                                                             *)
(***************************************************************************)
\* the sums of the counters, taken in the counters' own unsigned arithmetic
RunningSum(st) == MapSum(st.Running) % UintModulus
RunsSum(st) == MapSum(st.Runs) % UintModulus

\* the step is a due call of watcher() by the main loop
IsReconcile ==
    /\ mainPc = "watch"
    /\ mainPc' = "command"
    /\ stats.TotalCycles % WatchEvery = 0

\* the step is processCommand(cmd) running to its end
IsProcessed(cmd) == BagIn(cmd, commands) /\ commands' = commands (-) SetToBag({cmd})

\* C1: in every state of the dispatcher with its launches, TotalRunning is
\* the sum of Running over its keys.
C1_TotalRunningIsSum == stats.TotalRunning = RunningSum(stats)

C3_FloorAlwaysAdmits ==
    \A w \in WorkerNames :
        Get(stats.Running, w) < limits.Min => CanRunWorker(w, stats, limits)

\* C3 witness: a worker below the floor was launched with the total limit
\* reached and a per-queue limit of 0.
C3_Witness ==
    \E w \in WorkerNames :
        /\ Get(stats.Running, w) < limits.Min
        /\ stats.TotalRunning >= limits.Total
        /\ Has(limits.Queues, w) /\ limits.Queues[w] = 0
        /\ BagIn(NewRunner(w), runners)

\* what C4 says canRunWorker answers once the floor is met
CeilingDecision(w, st, lim) ==
    /\ st.TotalRunning < lim.Total
    /\ (~Has(lim.Queues, w) \/ Get(st.Running, w) < lim.Queues[w])

\* C4: once Running[w] >= Min, canRunWorker(w) is false when TotalRunning >=
\* Total, and otherwise true exactly when w has no per-queue limit or runs
\* fewer instances than it; the loop that asks changes no limit and no count.
C4_CeilingDecision ==
    /\ [](\A w \in WorkerNames :
            Get(stats.Running, w) >= limits.Min =>
                (CanRunWorker(w, stats, limits) <=> CeilingDecision(w, stats, limits)))
    /\ [][/\ limits' = limits
          /\ stats'.Running = stats.Running
          /\ stats'.TotalRunning = stats.TotalRunning
          /\ \A w \in WorkerNames :
                BagIn(NewRunner(w), runners') => CanRunWorker(w, stats, limits)]_vars

\* C4 witness: a worker at its floor and below its per-queue limit was
\* launched while another, at its per-queue limit, was not.
C4_Witness ==
    \E w, v \in WorkerNames :
        /\ mainPc = "watch"
        /\ Get(stats.Running, w) >= limits.Min /\ Get(stats.Running, v) >= limits.Min
        /\ stats.TotalRunning < limits.Total
        /\ Has(limits.Queues, w) /\ Get(stats.Running, w) < limits.Queues[w]
        /\ Has(limits.Queues, v) /\ Get(stats.Running, v) = limits.Queues[v]
        /\ BagIn(NewRunner(w), runners)
        /\ ~BagIn(NewRunner(v), runners)

\* C5: a second watcher() right after a due one, with the same worker files,
\* subscribes and unsubscribes nothing and leaves connections, stats and
\* limits as the first left them.
C5_ReconcileIdempotent ==
    [][IsReconcile =>
        LET again == Watcher(files', connections', stats', limits')
        IN  /\ again.subscribed = {}
            /\ again.unsubscribed = {}
            /\ again.connections = connections'
            /\ again.stats = stats'
            /\ again.limits = limits']_vars

\* C5 witness: the state after a watcher() call that subscribed one worker and
\* unsubscribed another.
C5_Witness ==
    /\ mainPc = "command"
    /\ stats.TotalCycles = WatchEvery
    /\ \E w \in connections : Has(stats.Running, w)
    /\ \E w \in DOMAIN stats.Runs : w \notin connections /\ ~Has(stats.Running, w)

\* C6: right after a due watcher(), the connections are exactly the worker
\* files, a newly subscribed worker with no earlier counter has Runs and
\* Running 0, and no unsubscribed worker has a Running entry.
C6_AfterReconcile ==
    [][IsReconcile =>
        /\ connections' = files
        /\ \A w \in connections' \ connections :
              /\ ~Has(stats.Runs, w) => stats'.Runs[w] = 0
              /\ ~Has(stats.Running, w) => stats'.Running[w] = 0
        /\ \A w \in connections \ connections' : ~Has(stats'.Running, w)]_vars

\* C6 witness: after a watcher() call, a worker with a launch still in flight
\* is unsubscribed and has lost its Running entry, and another is subscribed
\* with counters 0.
C6_Witness ==
    /\ mainPc = "command"
    /\ stats.TotalCycles = WatchEvery
    /\ \E w \in connections : stats.Runs[w] = 0 /\ stats.Running[w] = 0
    /\ \E r \in BagToSet(runners) :
          /\ r.at = "running"
          /\ r.worker \notin connections
          /\ ~Has(stats.Running, r.worker)

\* keys and values a setLimits command may carry
OptionKeys == {"*", "-", "alpha", "ghost"}
OptionValues == {<<"3">>, <<"-", "1">>, <<"x">>}

\* C7: no step removes a key from limits.Queues; a step that subscribes or
\* unsubscribes a worker keeps every value; and no pair of a setLimits
\* command adds or removes a key.
C7_PerQueueKept ==
    /\ [](\A key \in OptionKeys, value \in OptionValues :
            DOMAIN SetLimit(limits, key, value).Queues = DOMAIN limits.Queues)
    /\ [][\A k \in DOMAIN limits.Queues :
            /\ Has(limits'.Queues, k)
            /\ connections' # connections => limits'.Queues[k] = limits.Queues[k]]_vars

\* C7 witness: watcher() has unsubscribed a worker (its Running entry is
\* gone) whose per-queue limit still has a value other than the default.
C7_Witness ==
    \E w \in DOMAIN stats.Runs :
        /\ w \notin connections
        /\ ~Has(stats.Running, w)
        /\ Has(limits.Queues, w)
        /\ limits.Queues[w] # DEFAULT_QUEUE_LIMIT

\* options is {"*": a, "-": b, w: c} with a, b, c non-negative integers and w
\* a worker that has a per-queue limit
IsThreeLimits(options, w) ==
    /\ w \notin {"*", "-"}
    /\ Has(limits.Queues, w)
    /\ DOMAIN options = {"*", "-", w}
    /\ \A k \in DOMAIN options : Atoi(options[k]).ok /\ Atoi(options[k]).val >= 0

\* C8: when processCommand has run setLimits({"*": a, "-": b, w: c}), in
\* whatever order of the options, getLimits answers Total = a, Min = b,
\* Queues[w] = c, and readConfig of the file it wrote loads the same values.
C8_LimitsRoundTrip ==
    [][\A cmd \in BagToSet(commands) : \A w \in DOMAIN cmd.Options :
          (cmd.Command = "setLimits" /\ IsProcessed(cmd) /\ IsThreeLimits(cmd.Options, w)) =>
              LET shown  == ParseLimits(GetLimits(limits')).val
                  loaded == ReadConfig(cfgFile', DefaultLimits)
                  a == Atoi(cmd.Options["*"]).val
                  b == Atoi(cmd.Options["-"]).val
                  c == Atoi(cmd.Options[w]).val
              IN  /\ shown.Total = a /\ shown.Min = b /\ shown.Queues[w] = c
                  /\ loaded.Total = a /\ loaded.Min = b /\ loaded.Queues[w] = c]_vars

\* C9: when processCommand has run a command that is none of getLimits,
\* getStatus, setLimits, nothing was put on the response tube, the config file
\* was not written, limits and stats are as before, and the main loop is
\* where it was, free to go on.
C9_UnknownCommandIgnored ==
    [][\A cmd \in BagToSet(commands) :
          (cmd.Command \notin KnownCommands /\ IsProcessed(cmd)) =>
              /\ responseTube' = responseTube
              /\ cfgFile' = cfgFile
              /\ limits' = limits
              /\ stats' = stats
              /\ mainPc' = mainPc
              /\ connections' = connections]_vars

\* C9 witness: an unknown command is with processCommand after an earlier
\* setLimits changed the limits and wrote the config file, and the main loop
\* has gone on to its next cycle.
C9_Witness ==
    /\ \E cmd \in BagToSet(commands) : cmd.Command \notin KnownCommands
    /\ cfgFile.present
    /\ limits.Min = 2
    /\ responseTube = <<>>
    /\ mainPc = "watch"
    /\ stats.TotalCycles > 0

\* C10: when processCommand has run setLimits, a "*" option with an integer
\* value has set limits.Total and a "-" option has set limits.Min, whatever
\* keys limits.Queues has.
C10_StarAndDashAreGlobal ==
    [][\A cmd \in BagToSet(commands) :
          (cmd.Command = "setLimits" /\ IsProcessed(cmd)) =>
              /\ (Has(cmd.Options, "*") /\ Atoi(cmd.Options["*"]).ok) =>
                    limits'.Total = ToUint(Atoi(cmd.Options["*"]).val)
              /\ (Has(cmd.Options, "-") /\ Atoi(cmd.Options["-"]).ok) =>
                    limits'.Min = ToUint(Atoi(cmd.Options["-"]).val)]_vars

\* C11: the connections are changed only by watcher() in the main goroutine;
\* no step of a launch (workerRunner) adds or removes a connection.
C11_OnlyWatcherChangesConnections ==
    [][connections' # connections => IsReconcile]_vars

\* C12: at any time at most one command is being processed.
C12_OneCommandAtATime == BagCardinality(commands) <= 1

\* the workerRunner goroutines of worker w that are at one of the stages
RunnersAt(w, stages) ==
    BagCardinality([r \in {x \in BagToSet(runners) : x.worker = w /\ x.at \in stages}
                      |-> runners[r]])

AllStages == {"send_start", "exec", "running", "send_end"}
\* the start event is applied and the end event is not
CountedStages == {"exec", "running", "send_end"}

\* C13: while the process lives, a worker that is not subscribed, whose file
\* is absent and which has no launch in flight has no entry in Running, Runs
\* or Errors.
C13_StatsKeysAreKnownWorkers ==
    mainPc # "fatal" =>
        \A w \in DOMAIN stats.Running \cup DOMAIN stats.Runs \cup DOMAIN stats.Errors :
            w \in connections \/ w \in files \/ RunnersAt(w, AllStages) > 0

\* the step takes a goroutine like r out of the bag, or puts one in
Leaves(r) == CopiesIn(r, runners') < CopiesIn(r, runners)
Enters(r) == CopiesIn(r, runners') > CopiesIn(r, runners)

\* 1 when the step applies the end event of a failed run of w, else 0
EndedWithError(w) ==
    IF \E r \in BagToSet(runners) :
          r.worker = w /\ r.at = "send_end" /\ r.hasError /\ Leaves(r)
    THEN 1 ELSE 0

\* C14: a launch carries no error flag until its process has run and
\* returned an error; a missing executable sets no flag; Errors[w] grows by
\* exactly 1 when the end event of a failed run of w is applied and changes
\* in no other step, in particular not when a start event is applied.
C14_ErrorsOncePerFailedRun ==
    /\ [](\A r \in BagToSet(runners) :
            r.at \in {"send_start", "exec", "running"} => ~r.hasError)
    /\ [][mainPc' # "fatal" =>
            /\ \A q \in BagToSet(runners') :
                  (q.at = "send_end" /\ q.hasError /\ Enters(q)) =>
                      \E r \in BagToSet(runners) :
                          r.worker = q.worker /\ r.at = "running" /\ Leaves(r)
            /\ \A w \in WorkerNames :
                  Get(stats'.Errors, w) = Get(stats.Errors, w) + EndedWithError(w)]_vars

\* C14 witness: a worker was launched twice, one run failed and one did not,
\* both end events are applied and the worker has one error.
C14_Witness ==
    \E w \in WorkerNames :
        /\ Has(stats.Runs, w) /\ stats.Runs[w] = 2
        /\ Has(stats.Errors, w) /\ stats.Errors[w] = 1
        /\ runners = EmptyBag
        /\ mainPc # "fatal"

\* w is subscribed, its tube has a ready job and canRunWorker admits it
Admissible(w) ==
    w \in connections /\ w \in ReadyTubes /\ CanRunWorker(w, stats, limits)

\* C15: with worker processes that may never return and commands that may
\* never be answered, the main loop goes through all its cycles, from some
\* point on no launch waits for its start event to be applied (each has
\* been applied), and a worker that is
\* admissible with a ready job when the loop over the connections is reached
\* is launched unless it stops being admissible first.
C15_DispatcherNeverStalls ==
    /\ <>(stats.TotalCycles = MaxCycles)
    /\ <>[](PendingStarts = 0)
    /\ \A w \in WorkerNames :
          (mainPc = "queues" /\ Admissible(w))
              ~> (w \notin ReadyTubes \/ ~CanRunWorker(w, stats, limits))

\* C15 witness: the main loop has done all its cycles and another worker
\* was launched and has finished, while a worker process launched before is
\* still running and a command is still unanswered.
C15_Witness ==
    /\ stats.TotalCycles = MaxCycles
    /\ RunnersAt("alpha", {"running"}) = 1
    /\ Get(stats.Runs, "*") = 1
    /\ RunnersAt("*", AllStages) = 0
    /\ commands # EmptyBag

\* the pair of key k in the options is one setLimits skips: its value is no
\* integer, or its key is neither "*" nor "-" nor a key of limits.Queues
IsBadPair(options, k) ==
    \/ ~Atoi(options[k]).ok
    \/ k \notin {"*", "-"} /\ ~Has(limits.Queues, k)

\* the options without the pairs setLimits skips
GoodPairs(options) ==
    [k \in {x \in DOMAIN options : ~IsBadPair(options, x)} |-> options[k]]

\* C16: when processCommand has run setLimits, limits.Queues has the keys
\* it had; a skipped pair changed nothing for its key; the limits are what
\* the command without its skipped pairs gives; the config file holds the
\* new limits; and the response is what getStatus returns.
C16_BadPairsSkipped ==
    [][\A cmd \in BagToSet(commands) :
          (cmd.Command = "setLimits" /\ IsProcessed(cmd)) =>
              /\ DOMAIN limits'.Queues = DOMAIN limits.Queues
              /\ \A k \in DOMAIN cmd.Options :
                    IsBadPair(cmd.Options, k) =>
                        /\ k = "*" => limits'.Total = limits.Total
                        /\ k = "-" => limits'.Min = limits.Min
                        /\ Has(limits.Queues, k) => limits'.Queues[k] = limits.Queues[k]
              /\ \A order \in Orders(DOMAIN GoodPairs(cmd.Options)) :
                    limits' = SetLimitsIn(limits, GoodPairs(cmd.Options), order)
              /\ ReadConfig(cfgFile', DefaultLimits) = limits'
              /\ responseTube' = Append(responseTube, GetStatus(stats', limits'))]_vars

\* C16 witness: the command with an unknown key, a value that is no integer
\* and a pair that applies was run with alpha subscribed: the total limit is
\* set and written to the config file, alpha's limit is as it was.
C16_Witness ==
    /\ limits.Total = 4
    /\ Has(limits.Queues, "alpha") /\ limits.Queues["alpha"] = DEFAULT_QUEUE_LIMIT
    /\ ~Has(limits.Queues, "ghost")
    /\ cfgFile.present /\ ReadConfig(cfgFile, DefaultLimits) = limits
    /\ Len(responseTube) = 1

\* C20: when processCommand has run setLimits, a pair with a negative
\* integer value has left the limit of its key as it was or at 0.
C20_NegativeNeverRaises ==
    [][\A cmd \in BagToSet(commands) :
          (cmd.Command = "setLimits" /\ IsProcessed(cmd)) =>
              \A k \in DOMAIN cmd.Options :
                  (Atoi(cmd.Options[k]).ok /\ Atoi(cmd.Options[k]).val < 0) =>
                      /\ k = "*" => limits'.Total \in {limits.Total, 0}
                      /\ k = "-" => limits'.Min \in {limits.Min, 0}
                      /\ Has(limits.Queues, k) =>
                            limits'.Queues[k] \in {limits.Queues[k], 0}]_vars

\* the larger of two numbers
Max(a, b) == IF a >= b THEN a ELSE b

\* C17: for a worker with a per-queue limit, the worker processes running
\* at once are at most max(limits.Min, limits.Queues[w]).
C17_LimitsEnforced ==
    \A w \in DOMAIN limits.Queues :
        RunnersAt(w, {"running"}) <= Max(limits.Min, limits.Queues[w])

\* C18: while the process lives, Running[w], for each key, is the number of
\* launches of w whose start event is applied and whose end event is not.
C18_RunningCountsLaunches ==
    mainPc # "fatal" =>
        \A w \in DOMAIN stats.Running :
            stats.Running[w] = RunnersAt(w, CountedStages)

\* C19: while the process lives, a subscribed worker whose file is present
\* and which has no launch in flight is admitted by canRunWorker when
\* limits.Min is positive, so it is launched as soon as its tube has a job.
C19_ReaddedWorkerAdmitted ==
    mainPc # "fatal" =>
        \A w \in connections :
            (w \in files /\ limits.Min > 0 /\ RunnersAt(w, AllStages) = 0) =>
                CanRunWorker(w, stats, limits)

====
